---- MODULE Spec2Model ----
(***************************************************************************)
(* Model of aws_lambda.py: the four entry points that talk to the remote   *)
(* collections (validate_signature, validate_changes_collection,           *)
(* refresh_signature, schema_updater), one run of one entry point per      *)
(* behaviour, against a remote service that other clients may modify       *)
(* between two requests of the run.                                        *)
(***************************************************************************)
EXTENDS Integers, Sequences, FiniteSets, TLC

\* Longest collection list (event['collections']) or registry content.
MaxColls == 3
\* Most writes other clients make on the remote service during one run.
MaxWrites == 1

\* The remote collections of the model, two of DEFAULT_COLLECTIONS.
Coll == {"certificates", "pins"}

DEFAULT_COLLECTIONS ==
    [certificates |-> [bucket |-> "blocklists", collection |-> "certificates"],
     pins         |-> [bucket |-> "pinning", collection |-> "pins"]]

\* The statuses a collection can be found in; only "signed" is acted upon.
Status == {"signed", "to-sign", "work-in-progress"}

VARIABLES
    op,          \* the entry point this run executes
    collections, \* the list the loop iterates (event['collections'] / registry)
    remote,      \* the remote service: collection -> metadata, records, timestamp
    registry,    \* the remote service: the records of the changes collection
    clock,       \* the remote service's timestamp generator
    writes,      \* writes made by other clients so far
    pc,          \* position of the run
    idx,         \* 1-based position of the loop in collections
    local,       \* the local variables of the running entry point
    files,       \* the temporary files that exist on the local disk
    calls,       \* the remote requests issued by the run, in order
    attempts,    \* per finished loop iteration, what it saw and decided
    everBad,     \* collections that had a state not validly signed
    result       \* how the run ended, or running

vars == <<op, collections, remote, registry, clock, writes, pc, idx, local, files,
          calls, attempts, everBad, result>>

-----------------------------------------------------------------------------
(* Python values and the collaborators' functions *)

PyInt(n) == [int |-> n]
PyString(s) == [str |-> s]

RECURSIVE Digits(_)
Digits(n) == IF n < 10 THEN <<n>> ELSE Append(Digits(n \div 10), n % 10)

\* str(x): the decimal rendering of an int, a string as it is.
str(x) == IF DOMAIN x = {"int"} THEN Digits(x.int) ELSE x.str

\* kinto_signer.serializer.canonical_json: the payload {data, last_modified}
\* with the timestamp rendered by '%s'.
canonical_json(records, timestamp) ==
    [data |-> records, last_modified |-> str(timestamp)]

\* kinto_signer.hasher.compute_hash: a digest, a function of the bytes.
compute_hash(serialized) == <<"sha384", serialized>>

\* What a signer produces over a payload, and ECDSASigner.verify.
Sign(serialized) == [signed |-> serialized]
verify(serialized, signature) == signature.signature = Sign(serialized)

Running == [type |-> "running"]
Returned == [type |-> "return"]
Raised(e) == [type |-> e]

\* A local variable gets bound (or rebound) to a value.
Bind(l, name, value) == (name :> value) @@ l
Bound(l, name) == name \in DOMAIN l

Lists(S, n) == UNION {[1..k -> S] : k \in 0..n}

-----------------------------------------------------------------------------
(* The remote service *)

\* The records of a collection as listed with _sort='-last_modified': their
\* last_modified values, newest first.
InitialRecords == <<100, 99>>

\* The signature of a collection's metadata, by what is wrong with it:
\*   valid    signs the collection's current records and timestamp
\*   rejected signs another payload (an older timestamp)
\*   nokey    valid, the public_key entry is missing
SignatureOf(kind, records, timestamp) ==
    CASE kind = "valid" ->
           [signature |-> Sign(canonical_json(records, PyInt(timestamp))),
            public_key |-> "pem"]
      [] kind = "rejected" ->
           [signature |-> Sign(canonical_json(records, PyInt(timestamp - 1))),
            public_key |-> "pem"]
      [] kind = "nokey" ->
           [signature |-> Sign(canonical_json(records, PyInt(timestamp)))]

\* One collection of the remote service: its metadata (what get_collection
\* returns under 'data'), its records and the timestamp of its records.
\* kind "nosig": the metadata holds no signature.
CollectionState(kind, status, schema, timestamp) ==
    LET meta == [status |-> status, last_modified |-> timestamp, schema |-> schema]
    IN [data |-> IF kind = "nosig" THEN meta
                 ELSE Bind(meta, "signature",
                           SignatureOf(kind, InitialRecords, timestamp)),
        records |-> InitialRecords,
        timestamp |-> timestamp]

ValidlySigned(col) ==
    /\ Bound(col.data, "signature")
    /\ Bound(col.data.signature, "public_key")
    /\ verify(canonical_json(col.records, PyInt(col.timestamp)), col.data.signature)

\* Another client publishes a change of collection c: a new record, a new
\* timestamp and the signature over both, in one step.
RemotePublish(c) ==
    /\ result = Running
    /\ writes < MaxWrites
    /\ LET now == clock + 1
           recs == <<now>> \o remote[c].records
           meta == [remote[c].data EXCEPT !.last_modified = now, !.status = "signed"]
       IN /\ remote' = [remote EXCEPT ![c] =
                 [data |-> Bind(meta, "signature", SignatureOf("valid", recs, now)),
                  records |-> recs,
                  timestamp |-> now]]
          /\ clock' = now
    /\ writes' = writes + 1
    /\ UNCHANGED <<op, collections, registry, pc, idx, local, files, calls,
                   attempts, everBad, result>>

\* The signing worker serves a collection in status "to-sign".
RemoteSign(c) ==
    /\ result = Running
    /\ writes < MaxWrites
    /\ remote[c].data.status = "to-sign"
    /\ LET now == clock + 1
           meta == [remote[c].data EXCEPT !.last_modified = now, !.status = "signed"]
       IN /\ remote' = [remote EXCEPT ![c].data =
                 Bind(meta, "signature",
                      SignatureOf("valid", remote[c].records, remote[c].timestamp))]
          /\ clock' = now
    /\ writes' = writes + 1
    /\ UNCHANGED <<op, collections, registry, pc, idx, local, files, calls,
                   attempts, everBad, result>>

\* A request of the run, as logged, with what the service answered.
Call(verb, c, response) ==
    [verb |-> verb, coll |-> c, iter |-> idx, response |-> response]

\* The answer of a request that failed (network, authentication, not found):
\* the client raises.
Failure == [error |-> "KintoException"]

\* A patch_collection(data=...) request, as logged.
PatchCall(c, data, response) ==
    Bind(Call("patch_collection", c, response), "data", data)

\* An exception leaves the entry point: the run is over.
Abort(e) ==
    /\ result' = Raised(e)
    /\ pc' = "done"

-----------------------------------------------------------------------------
(* validate_signature *)

Looking(c) == [line |-> "Looking at", value |-> DEFAULT_COLLECTIONS[c]]

Serialized == canonical_json(local.records, local.timestamp)

\* The lines of the except block for the collection at hand.
SignatureKO ==
    << [line |-> "Signature KO.", value |-> <<>>],
       [line |-> " - Computed hash", value |-> compute_hash(Serialized)],
       [line |-> " - Collection timestamp", value |-> str(local.timestamp)],
       [line |-> " - Serialized content", value |-> Serialized] >>

SignatureOK == << [line |-> "Signature OK", value |-> <<>>] >>

\* As Extend, keeping the last message only.
ExtendLast(messages, message) == message

\* messages.extend(message) of the except block, messages.append of the try.
Extend(messages, message) == messages \o message

Attempt(outcome, e) ==
    [coll |-> collections[idx], outcome |-> outcome, error |-> e,
     computed_hash |-> compute_hash(Serialized),
     timestamp |-> local.timestamp,
     signature |-> local.dest_col.data.signature,
     records |-> local.records]

\* except Exception as e: the exception is kept, the diagnostics are added.
Except(e) ==
    /\ local' = [local EXCEPT !.exception = e,
                              !.messages = Extend(@, SignatureKO)]
    /\ attempts' = Append(attempts, Attempt("KO", e))
    /\ pc' = "finally"

\* As Passed, a pass forgetting the exception kept so far.
PassedClears(l) ==
    [l EXCEPT !.exception = "None", !.messages = Extend(@, SignatureOK)]

\* The end of the try block: message = 'Signature OK'.
Passed(l) == [l EXCEPT !.messages = Extend(@, SignatureOK)]

\* As Unlink, leaving the file.
UnlinkNothing(fs, name) == fs

\* os.unlink(name)
Unlink(fs, name) == fs \ {name}

\* Loop head and step 1: the message of the collection, then get_collection.
validate_signature_get_collection ==
    /\ op = "validate_signature" /\ pc = "loop"
    /\ idx <= Len(collections)
    /\ LET c == collections[idx]
           l == [local EXCEPT !.messages = Append(@, Looking(c))]
           dest_col == [data |-> remote[c].data]
       IN \/ /\ calls' = Append(calls, Call("get_collection", c, dest_col))
             /\ local' = Bind(l, "dest_col", dest_col)
             /\ pc' = "get_records"
             /\ UNCHANGED result
          \/ /\ calls' = Append(calls, Call("get_collection", c, Failure))
             /\ local' = l
             /\ Abort("KintoException")
    /\ UNCHANGED <<op, collections, remote, registry, clock, writes, idx, files, attempts,
                   everBad>>

\* Step 2, first request: the records, newest first.
validate_signature_get_records ==
    /\ op = "validate_signature" /\ pc = "get_records"
    /\ LET c == collections[idx]
           records == remote[c].records
       IN \/ /\ calls' = Append(calls, Call("get_records", c, records))
             /\ local' = Bind(local, "records", records)
             /\ pc' = "get_records_timestamp"
             /\ UNCHANGED result
          \/ /\ calls' = Append(calls, Call("get_records", c, Failure))
             /\ Abort("KintoException")
             /\ UNCHANGED local
    /\ UNCHANGED <<op, collections, remote, registry, clock, writes, idx, files, attempts,
                   everBad>>

\* Step 2, second request (the ETag of the records), then steps 3 to 5:
\* serialize, hash, and dest_col['data']['signature'].
validate_signature_get_records_timestamp ==
    /\ op = "validate_signature" /\ pc = "get_records_timestamp"
    /\ LET c == collections[idx]
           timestamp == PyString(Digits(remote[c].timestamp))
       IN \/ /\ calls' = Append(calls, Call("get_records_timestamp", c, timestamp))
             /\ local' = Bind(local, "timestamp", timestamp)
             /\ IF Bound(local.dest_col.data, "signature")
                THEN pc' = "try" /\ UNCHANGED result
                ELSE Abort("KeyError")
          \/ /\ calls' = Append(calls, Call("get_records_timestamp", c, Failure))
             /\ Abort("KintoException")
             /\ UNCHANGED local
    /\ UNCHANGED <<op, collections, remote, registry, clock, writes, idx, files, attempts,
                   everBad>>

\* Step 6: the temporary file is created and the public key written to it.
\* NamedTemporaryFile may fail (f keeps what it was bound to, if anything);
\* signature['public_key'] may be missing (the file exists by then).
validate_signature_stage_key ==
    /\ op = "validate_signature" /\ pc = "try"
    /\ \/ /\ Except("OSError")
          /\ UNCHANGED files
       \/ /\ files' = files \cup {idx}
          /\ IF Bound(local.dest_col.data.signature, "public_key")
             THEN /\ local' = Bind(local, "f", idx)
                  /\ pc' = "verify"
                  /\ UNCHANGED attempts
             ELSE /\ local' = [Bind(local, "f", idx) EXCEPT
                                 !.exception = "KeyError",
                                 !.messages = Extend(@, SignatureKO)]
                  /\ attempts' = Append(attempts, Attempt("KO", "KeyError"))
                  /\ pc' = "finally"
    /\ UNCHANGED <<op, collections, remote, registry, clock, writes, idx, calls, everBad,
                   result>>

\* Step 7: signer.verify(serialized, signature).
validate_signature_verify ==
    /\ op = "validate_signature" /\ pc = "verify"
    /\ IF verify(Serialized, local.dest_col.data.signature)
       THEN /\ local' = Passed(local)
            /\ attempts' = Append(attempts, Attempt("OK", "None"))
            /\ pc' = "finally"
       ELSE Except("BadSignatureError")
    /\ UNCHANGED <<op, collections, remote, registry, clock, writes, idx, files, calls,
                   everBad, result>>

\* finally: os.unlink(f.name). f is unbound when the first NamedTemporaryFile
\* of the run failed, and names a file already deleted when a later one did.
validate_signature_unlink ==
    /\ op = "validate_signature" /\ pc = "finally"
    /\ IF ~Bound(local, "f")
       THEN Abort("UnboundLocalError") /\ UNCHANGED <<files, idx>>
       ELSE IF local.f \notin files
       THEN Abort("FileNotFoundError") /\ UNCHANGED <<files, idx>>
       ELSE /\ files' = Unlink(files, local.f)
            /\ idx' = idx + 1
            /\ pc' = "loop"
            /\ UNCHANGED result
    /\ UNCHANGED <<op, collections, remote, registry, clock, writes, local, calls,
                   attempts, everBad>>

\* The text of the ValidationError: the last exception, then every message.
ValidationError(exception, messages) ==
    [type |-> "ValidationError", exception |-> exception, messages |-> messages]

\* After the loop: fail if an exception occurred.
validate_signature_end ==
    /\ op = "validate_signature" /\ pc = "loop"
    /\ idx > Len(collections)
    /\ result' = IF local.exception # "None"
                 THEN ValidationError(local.exception, local.messages)
                 ELSE Returned
    /\ pc' = "done"
    /\ UNCHANGED <<op, collections, remote, registry, clock, writes, idx, local, files,
                   calls, attempts, everBad>>

-----------------------------------------------------------------------------
(* validate_changes_collection *)

\* A record of the changes collection.
ChangeEntry(c, last_modified) ==
    [bucket |-> DEFAULT_COLLECTIONS[c].bucket, collection |-> c,
     last_modified |-> last_modified]

\* What an entry may record: the integer the service wrote, one that is a
\* write ahead, or a string that is the same number padded.
Recorded == {PyInt(100), PyInt(101), PyString(<<0, 1, 0, 0>>)}

\* Step 1: the records of the changes collection.
validate_changes_collection_get_records ==
    /\ op = "validate_changes_collection" /\ pc = "get_records"
    /\ \/ /\ calls' = Append(calls, Call("get_records", "changes", registry))
          /\ collections' = registry
          /\ pc' = "loop"
          /\ UNCHANGED result
       \/ /\ calls' = Append(calls, Call("get_records", "changes", Failure))
          /\ Abort("KintoException")
          /\ UNCHANGED collections
    /\ UNCHANGED <<op, remote, registry, clock, writes, idx, local, files,
                   attempts, everBad>>

\* As Compare, the flag following the entry at hand.
CompareLast(everything_ok, etag, last_modified) ==
    str(etag) = str(last_modified)

\* if str(etag) == str(last_modified): ... else: everything_ok = False
Compare(everything_ok, etag, last_modified) ==
    IF str(etag) = str(last_modified) THEN everything_ok ELSE FALSE

\* Step 2, one entry: the live timestamp of its collection against the entry.
validate_changes_collection_check ==
    /\ op = "validate_changes_collection" /\ pc = "loop"
    /\ idx <= Len(collections)
    /\ LET collection == collections[idx]
           cid == collection.collection
           etag == PyString(Digits(remote[cid].timestamp))
       IN \/ /\ calls' = Append(calls, Call("get_records_timestamp", cid, etag))
             /\ local' = [local EXCEPT !.everything_ok =
                              Compare(@, etag, collection.last_modified)]
             /\ attempts' = Append(attempts, [entry |-> collection, etag |-> etag])
             /\ idx' = idx + 1
             /\ UNCHANGED <<pc, result>>
          \/ /\ calls' = Append(calls, Call("get_records_timestamp", cid, Failure))
             /\ Abort("KintoException")
             /\ UNCHANGED <<local, attempts, idx>>
    /\ UNCHANGED <<op, collections, remote, registry, clock, writes, files,
                   everBad>>

\* After the loop: the generic error if an entry did not match.
validate_changes_collection_end ==
    /\ op = "validate_changes_collection" /\ pc = "loop"
    /\ idx > Len(collections)
    /\ result' = IF ~local.everything_ok THEN Raised("ValueError") ELSE Returned
    /\ pc' = "done"
    /\ UNCHANGED <<op, collections, remote, registry, clock, writes, idx, local,
                   files, calls, attempts, everBad>>

-----------------------------------------------------------------------------
(* refresh_signature *)

\* timestamp_to_date: the milliseconds cut to the second the date shows.
timestamp_to_date(timestamp_milliseconds) ==
    [utc_seconds |-> timestamp_milliseconds \div 1000]

\* Step 3: print(status, 'at', date, '(', last_modified, ')').
Display(collection_metadata, last_modified) ==
    [coll |-> collections[idx],
     status |-> collection_metadata.status,
     date |-> timestamp_to_date(last_modified),
     last_modified |-> last_modified]

\* PATCH of a collection's metadata: the fields are set, the service stamps
\* the collection and answers with the new metadata.
Patched(c, data) ==
    [remote EXCEPT ![c].data =
        [(data @@ remote[c].data) EXCEPT !.last_modified = clock + 1]]

\* As IsSigned, whatever the status.
IsSignedAlways(collection_metadata) == TRUE

\* if collection_metadata['status'] == 'signed':
IsSigned(collection_metadata) == collection_metadata.status = "signed"

\* As ReportedTimestamp, keeping the timestamp of the fetch.
ReportedTimestampStale(last_modified, new_metadata) == last_modified

\* last_modified = new_metadata['data']['last_modified']
ReportedTimestamp(last_modified, new_metadata) == new_metadata.data.last_modified

\* As refresh_signature_raise, the failure skipped and the loop going on.
refresh_signature_skip ==
    /\ idx' = idx + 1
    /\ pc' = "loop"
    /\ UNCHANGED <<result, local, attempts>>

\* A request of refresh_signature raises: nothing catches it.
refresh_signature_raise ==
    /\ Abort("KintoException")
    /\ UNCHANGED <<local, attempts, idx>>

\* Steps 1 and 2: get_collection, and the test of the status; step 3 when
\* the collection is not signed.
refresh_signature_get_collection ==
    /\ op = "refresh_signature" /\ pc = "loop"
    /\ idx <= Len(collections)
    /\ LET c == collections[idx]
           collection_metadata == remote[c].data
           last_modified == collection_metadata.last_modified
       IN \/ /\ calls' = Append(calls, Call("get_collection", c,
                                             [data |-> collection_metadata]))
             /\ local' = [collection_metadata |-> collection_metadata,
                          last_modified |-> last_modified]
             /\ IF IsSigned(collection_metadata)
                THEN /\ pc' = "patch"
                     /\ UNCHANGED <<attempts, idx>>
                ELSE /\ attempts' = Append(attempts,
                            Display(collection_metadata, last_modified))
                     /\ idx' = idx + 1
                     /\ UNCHANGED pc
             /\ UNCHANGED result
          \/ /\ calls' = Append(calls, Call("get_collection", c, Failure))
             /\ refresh_signature_raise
    /\ UNCHANGED <<op, collections, remote, registry, clock, writes, files,
                   everBad>>

\* Step 2.1: patch_collection(data={'status': 'to-sign'}), then step 3.
refresh_signature_patch ==
    /\ op = "refresh_signature" /\ pc = "patch"
    /\ LET c == collections[idx]
           data == [status |-> "to-sign"]
           after == Patched(c, data)
           new_metadata == [data |-> after[c].data]
           last_modified == ReportedTimestamp(local.last_modified, new_metadata)
       IN \/ /\ calls' = Append(calls, PatchCall(c, data, new_metadata))
             /\ remote' = after
             /\ clock' = clock + 1
             /\ local' = [local EXCEPT !.last_modified = last_modified]
             /\ attempts' = Append(attempts,
                    Display(local.collection_metadata, last_modified))
             /\ idx' = idx + 1
             /\ pc' = "loop"
             /\ UNCHANGED result
          \/ /\ calls' = Append(calls, PatchCall(c, data, Failure))
             /\ refresh_signature_raise
             /\ UNCHANGED <<remote, clock>>
    /\ UNCHANGED <<op, collections, registry, writes, files, everBad>>

refresh_signature_end ==
    /\ op = "refresh_signature" /\ pc = "loop"
    /\ idx > Len(collections)
    /\ result' = Returned
    /\ pc' = "done"
    /\ UNCHANGED <<op, collections, remote, registry, clock, writes, idx, local,
                   files, calls, attempts, everBad>>

-----------------------------------------------------------------------------
(* schema_updater *)

\* schemas[collection_type]['config'] of schemas.json.
Config(collection_type) == "schema"

\* amo2kinto's update_schema_if_mandatory(dest_col, config, patch_collection)
\* patches when the collection's schema is not the configured one.
MustUpdate(dest_col, config) == dest_col.data.schema # config

\* Step 1 and the test of update_schema_if_mandatory.
schema_updater_get_collection ==
    /\ op = "schema_updater" /\ pc = "loop"
    /\ idx <= Len(collections)
    /\ LET c == collections[idx]
           dest_col == [data |-> remote[c].data]
       IN \/ /\ calls' = Append(calls, Call("get_collection", c, dest_col))
             /\ local' = [dest_col |-> dest_col]
             /\ IF MustUpdate(dest_col, Config(c))
                THEN pc' = "patch" /\ UNCHANGED idx
                ELSE idx' = idx + 1 /\ UNCHANGED pc
             /\ UNCHANGED result
          \/ /\ calls' = Append(calls, Call("get_collection", c, Failure))
             /\ Abort("KintoException")
             /\ UNCHANGED <<local, idx>>
    /\ UNCHANGED <<op, collections, remote, registry, clock, writes, files,
                   attempts, everBad>>

\* The patch_collection call update_schema_if_mandatory makes.
schema_updater_patch ==
    /\ op = "schema_updater" /\ pc = "patch"
    /\ LET c == collections[idx]
           data == [schema |-> Config(c)]
           after == Patched(c, data)
       IN \/ /\ calls' = Append(calls, PatchCall(c, data, [data |-> after[c].data]))
             /\ remote' = after
             /\ clock' = clock + 1
             /\ idx' = idx + 1
             /\ pc' = "loop"
             /\ UNCHANGED result
          \/ /\ calls' = Append(calls, PatchCall(c, data, Failure))
             /\ Abort("KintoException")
             /\ UNCHANGED <<remote, clock, idx>>
    /\ UNCHANGED <<op, collections, registry, writes, local, files, attempts,
                   everBad>>

schema_updater_end ==
    /\ op = "schema_updater" /\ pc = "loop"
    /\ idx > Len(collections)
    /\ result' = Returned
    /\ pc' = "done"
    /\ UNCHANGED <<op, collections, remote, registry, clock, writes, idx, local,
                   files, calls, attempts, everBad>>

-----------------------------------------------------------------------------
(* One run of one entry point *)

InitRun ==
    /\ clock = 100
    /\ writes = 0
    /\ idx = 1
    /\ files = {}
    /\ calls = <<>>
    /\ attempts = <<>>
    /\ result = Running

Init_validate_signature ==
    /\ op = "validate_signature"
    /\ collections \in Lists(Coll, MaxColls)
    /\ \E kind \in [Coll -> {"valid", "rejected", "nokey", "nosig"}] :
          /\ remote = [c \in Coll |->
                         CollectionState(kind[c], "signed", "schema", 100)]
          /\ everBad = {c \in Coll : kind[c] # "valid"}
    /\ registry = <<>>
    /\ pc = "loop"
    /\ local = [exception |-> "None", messages |-> <<>>]
    /\ InitRun

Init_validate_changes_collection ==
    /\ op = "validate_changes_collection"
    /\ collections = <<>>
    /\ remote = [c \in Coll |-> CollectionState("valid", "signed", "schema", 100)]
    /\ everBad = {}
    /\ registry \in Lists({ChangeEntry(c, v) : c \in Coll, v \in Recorded}, MaxColls)
    /\ pc = "get_records"
    /\ local = [everything_ok |-> TRUE]
    /\ InitRun

Init_refresh_signature ==
    /\ op = "refresh_signature"
    /\ collections \in Lists(Coll, MaxColls)
    /\ \E status \in [Coll -> Status] :
          remote = [c \in Coll |->
                      CollectionState("valid", status[c], "schema", 100)]
    /\ everBad = {}
    /\ registry = <<>>
    /\ pc = "loop"
    /\ local = <<>>
    /\ InitRun

Init_schema_updater ==
    /\ op = "schema_updater"
    /\ collections \in Lists(Coll, MaxColls)
    /\ \E schema \in [Coll -> {"schema", "old schema"}] :
          remote = [c \in Coll |->
                      CollectionState("valid", "signed", schema[c], 100)]
    /\ everBad = {}
    /\ registry = <<>>
    /\ pc = "loop"
    /\ local = <<>>
    /\ InitRun

Init ==
    \/ Init_validate_signature
    \/ Init_validate_changes_collection
    \/ Init_refresh_signature
    \/ Init_schema_updater

Remote == \E c \in Coll : RemotePublish(c) \/ RemoteSign(c)

Next ==
    \/ validate_signature_get_collection
    \/ validate_signature_get_records
    \/ validate_signature_get_records_timestamp
    \/ validate_signature_stage_key
    \/ validate_signature_verify
    \/ validate_signature_unlink
    \/ validate_signature_end
    \/ validate_changes_collection_get_records
    \/ validate_changes_collection_check
    \/ validate_changes_collection_end
    \/ refresh_signature_get_collection
    \/ refresh_signature_patch
    \/ refresh_signature_end
    \/ schema_updater_get_collection
    \/ schema_updater_patch
    \/ schema_updater_end
    \/ Remote

Spec == Init /\ [][Next]_vars

-----------------------------------------------------------------------------
(* Properties of validate_signature *)

Done == pc = "done"

\* The loop ran to its end: the run returned or raised its ValidationError.
Completed == Done /\ result.type \in {"return", "ValidationError"}

\* Iteration k issued the request verb for collection c.
Issued(verb, k, c) ==
    \E j \in DOMAIN calls :
        calls[j].verb = verb /\ calls[j].iter = k /\ calls[j].coll = c

KO == {k \in DOMAIN attempts : attempts[k].outcome = "KO"}

\* The verifier rejected the signature of the collection of iteration k.
Rejected == {k \in DOMAIN attempts : attempts[k].error = "BadSignatureError"}

Says(message, line, value) == message.line = line /\ message.value = value

\* The lines Looking at, Signature KO., computed hash and collection
\* timestamp of attempt a stand together in msgs.
Diagnosed(msgs, a) ==
    \E j \in 1..(Len(msgs) - 3) :
        /\ Says(msgs[j], "Looking at", DEFAULT_COLLECTIONS[a.coll])
        /\ msgs[j + 1].line = "Signature KO."
        /\ Says(msgs[j + 2], " - Computed hash", a.computed_hash)
        /\ Says(msgs[j + 3], " - Collection timestamp", str(a.timestamp))

\* C1: a rejected signature never stops validate_signature: a run that no
\* failed request and no failed file creation cut short has queried every
\* collection of the list, in order, whatever was rejected before; only a
\* file that could not be created makes the finally clause raise; and the
\* ValidationError carries the hash and timestamp lines of every collection
\* that failed, one block per failure.
C1_ReportEverything ==
    op = "validate_signature" =>
        /\ Completed =>
              /\ Len(attempts) = Len(collections)
              /\ \A k \in DOMAIN collections :
                    /\ attempts[k].coll = collections[k]
                    /\ Issued("get_collection", k, collections[k])
                    /\ Issued("get_records", k, collections[k])
                    /\ Issued("get_records_timestamp", k, collections[k])
        /\ result.type \in {"UnboundLocalError", "FileNotFoundError"} =>
              attempts[Len(attempts)].error = "OSError"
        /\ (Done /\ KO # {} /\ Len(attempts) = Len(collections)
               /\ \A k \in KO : attempts[k].error # "OSError") =>
              /\ result.type = "ValidationError"
              /\ \A k \in KO : Diagnosed(result.messages, attempts[k])
              /\ Cardinality({j \in DOMAIN result.messages :
                                 result.messages[j].line = "Signature KO."})
                    = Cardinality(KO)

\* Collections #1 and #3 were rejected, #2 passed, and the error was raised.
C1_Witness ==
    /\ op = "validate_signature" /\ Done
    /\ result.type = "ValidationError"
    /\ Len(attempts) = 3
    /\ attempts[1].error = "BadSignatureError"
    /\ attempts[2].outcome = "OK"
    /\ attempts[3].error = "BadSignatureError"
    /\ attempts[1].coll # attempts[2].coll

\* Every request was answered, with metadata that holds a signature and its
\* public key, and every temporary file could be created.
ReadsSucceeded ==
    /\ \A j \in DOMAIN calls : calls[j].response # Failure
    /\ result.type # "KeyError"
    /\ \A k \in DOMAIN attempts : attempts[k].error \in {"None", "BadSignatureError"}

\* C2: when all remote reads succeed, validate_signature ends with a
\* ValidationError exactly when the verifier rejected at least one collection
\* of the list, and returns normally when it rejected none; a collection that
\* passes after one that failed does not clear the failure.
C2_Verdict ==
    (op = "validate_signature" /\ Done /\ ReadsSucceeded) =>
        /\ result.type = "ValidationError" <=> Rejected # {}
        /\ result = Returned <=> Rejected = {}
        /\ Len(attempts) = Len(collections)

\* A run where a rejected collection was followed by one that passed.
C2_Witness ==
    /\ op = "validate_signature" /\ Done /\ ReadsSucceeded
    /\ Len(attempts) >= 2
    /\ attempts[Len(attempts) - 1].error = "BadSignatureError"
    /\ attempts[Len(attempts)].outcome = "OK"
    /\ result.type = "ValidationError"

\* C3: an exception raised for a collection in steps 1 to 5 (a request that
\* fails, a metadata without signature) is recorded as the failure of that
\* collection and never ends validate_signature mid-loop.
C3_FetchFailureRecorded ==
    op = "validate_signature" => result.type \notin {"KintoException", "KeyError"}

\* C4: the key file of validate_signature lives within one iteration: at
\* most one exists at any time, it is the one of the collection at hand
\* between its creation and the finally clause, and none exists between two
\* iterations or once the run ended, however the attempt went.
C4_TempKeyCleanup ==
    op = "validate_signature" =>
        /\ Cardinality(files) <= 1
        /\ files \subseteq {idx}
        /\ files # {} => pc \in {"verify", "finally"}
        /\ pc \in {"loop", "get_records", "get_records_timestamp", "try", "done"}
              => files = {}

\* The run ended after an attempt that passed, one the verifier rejected and
\* one whose key could not be written, and no file is left.
C4_Witness ==
    /\ op = "validate_signature" /\ Done
    /\ \E i, j, k \in DOMAIN attempts :
          /\ attempts[i].error = "None"
          /\ attempts[j].error = "BadSignatureError"
          /\ attempts[k].error = "KeyError"
    /\ files = {}

\* C9: the signature, the records and the timestamp that validate_signature
\* verifies together belong to one state of the collection, whatever other
\* clients do between the three requests: a collection whose every state was
\* validly signed is never rejected.
C9_ConsistentTriple ==
    op = "validate_signature" =>
        \A k \in DOMAIN attempts :
            attempts[k].coll \notin everBad => attempts[k].error # "BadSignatureError"

-----------------------------------------------------------------------------
(* Properties of validate_changes_collection *)

\* The entry checked in iteration k and the live timestamp fetched for it
\* render to different strings.
Mismatch(k) == str(attempts[k].etag) # str(attempts[k].entry.last_modified)

\* C7: validate_changes_collection, when no request fails, fetches the live
\* timestamp of the collection of every entry of the registry, whatever the
\* earlier entries gave, and ends with the ValueError exactly when the string
\* of some live timestamp differs from the string of the last_modified of its
\* entry: live 100 matches a recorded 100 and no recorded 101.
C7_ChangesVerdict ==
    (op = "validate_changes_collection" /\ Done /\ result.type # "KintoException") =>
        /\ Len(attempts) = Len(registry)
        /\ \A k \in DOMAIN registry :
              /\ attempts[k].entry = registry[k]
              /\ \E j \in DOMAIN calls :
                    /\ calls[j].verb = "get_records_timestamp"
                    /\ calls[j].iter = k
                    /\ calls[j].coll = registry[k].collection
                    /\ calls[j].response = attempts[k].etag
              /\ (attempts[k].etag = PyString(<<1, 0, 0>>)
                     /\ attempts[k].entry.last_modified = PyInt(100)) => ~Mismatch(k)
              /\ (attempts[k].etag = PyString(<<1, 0, 0>>)
                     /\ attempts[k].entry.last_modified = PyInt(101)) => Mismatch(k)
        /\ result = Raised("ValueError") <=> \E k \in DOMAIN attempts : Mismatch(k)
        /\ result = Returned <=> \A k \in DOMAIN attempts : ~Mismatch(k)

\* The first entry did not match, a later one did, and the run failed.
C7_Witness ==
    /\ op = "validate_changes_collection" /\ Done
    /\ Len(attempts) >= 2
    /\ attempts[1].etag = PyString(<<1, 0, 0>>)
    /\ attempts[1].entry.last_modified = PyInt(101)
    /\ attempts[Len(attempts)].etag = PyString(<<1, 0, 0>>)
    /\ attempts[Len(attempts)].entry.last_modified = PyInt(100)
    /\ result = Raised("ValueError")

-----------------------------------------------------------------------------
(* Properties of refresh_signature *)

GetsOf(k) ==
    {j \in DOMAIN calls : calls[j].verb = "get_collection" /\ calls[j].iter = k}

PatchesOf(k) ==
    {j \in DOMAIN calls : calls[j].verb = "patch_collection" /\ calls[j].iter = k}

\* The metadata get_collection answered in iteration k.
FetchedIn(k) == calls[CHOOSE j \in GetsOf(k) : TRUE].response.data

\* C5: refresh_signature patches a collection exactly once, with
\* {status: "to-sign"}, when the metadata it fetched says "signed", and then
\* reports the last_modified of the answer to the patch; for any other status
\* it issues no patch and reports the last_modified it fetched.
C5_RefreshPatch ==
    op = "refresh_signature" =>
        /\ \A k \in DOMAIN collections :
              /\ Cardinality(PatchesOf(k)) <= 1
              /\ PatchesOf(k) # {} =>
                    /\ GetsOf(k) # {}
                    /\ FetchedIn(k).status = "signed"
        /\ \A k \in DOMAIN attempts :
              /\ attempts[k].coll = collections[k]
              /\ Cardinality(GetsOf(k)) = 1
              /\ IF FetchedIn(k).status = "signed"
                 THEN /\ Cardinality(PatchesOf(k)) = 1
                      /\ \A j \in PatchesOf(k) :
                            /\ calls[j].coll = collections[k]
                            /\ calls[j].data = [status |-> "to-sign"]
                            /\ attempts[k].last_modified =
                                  calls[j].response.data.last_modified
                            /\ attempts[k].last_modified # FetchedIn(k).last_modified
                 ELSE /\ PatchesOf(k) = {}
                      /\ attempts[k].last_modified = FetchedIn(k).last_modified

\* A run that reported a collection it patched and one it left alone.
C5_Witness ==
    /\ op = "refresh_signature" /\ Done
    /\ \E k, n \in DOMAIN attempts :
          /\ PatchesOf(k) # {}
          /\ PatchesOf(n) = {}
          /\ FetchedIn(n).status = "to-sign"

\* C6: for a collection it found signed and patched, refresh_signature
\* reports the status the collection has after the patch.
C6_ReportsNewState ==
    op = "refresh_signature" =>
        \A k \in DOMAIN attempts :
            \A j \in PatchesOf(k) :
                attempts[k].status = calls[j].response.data.status

\* C10: a request of refresh_signature that fails ends the run with its
\* error: it is the last request of the run, the request of the collection
\* at hand, no request is issued twice for one position of the list, and the
\* patches answered before are still in effect on the service.
C10_RefreshFailFast ==
    op = "refresh_signature" =>
        /\ \A j \in DOMAIN calls :
              /\ calls[j].iter <= idx
              /\ calls[j].response = Failure =>
                    /\ j = Len(calls)
                    /\ Done /\ result = Raised("KintoException")
                    /\ calls[j].iter = idx
                    /\ Len(attempts) = idx - 1
              /\ (calls[j].verb = "patch_collection" /\ calls[j].response # Failure) =>
                    /\ remote[calls[j].coll].data.last_modified
                          >= calls[j].response.data.last_modified
                    /\ writes = 0 => remote[calls[j].coll].data.status = "to-sign"
        /\ \A k \in DOMAIN collections :
              Cardinality(GetsOf(k)) <= 1 /\ Cardinality(PatchesOf(k)) <= 1
        /\ result.type = "KintoException" =>
              \A k \in DOMAIN collections : k > idx => GetsOf(k) \cup PatchesOf(k) = {}

\* The fetch of the second collection failed after the first was patched,
\* and a third collection was never looked at.
C10_Witness ==
    /\ op = "refresh_signature" /\ Done
    /\ result = Raised("KintoException")
    /\ Len(collections) = 3 /\ idx = 2
    /\ PatchesOf(1) # {}
    /\ remote[collections[1]].data.status = "to-sign"
    /\ GetsOf(3) = {}

-----------------------------------------------------------------------------
(* Who writes to the remote service *)

\* A step of the run, as opposed to a step of another client.
RunStep ==
    calls' # calls \/ pc' # pc \/ idx' # idx \/ files' # files \/ result' # result

Wrote ==
    \/ remote' # remote
    \/ registry' # registry
    \/ calls' # calls /\ calls'[Len(calls')].verb = "patch_collection"

\* C8 as stated: every entry point but refresh_signature issues no patch.
C8_OnlyRefreshWrites ==
    op # "refresh_signature" =>
        \A j \in DOMAIN calls : calls[j].verb # "patch_collection"

\* C8 as amended: the remote service is written by refresh_signature, for a
\* collection it fetched as signed, and by schema_updater, for a collection
\* whose schema is not the configured one; no step of validate_signature or
\* validate_changes_collection issues a patch or changes a remote collection.
C8_Writers ==
    [][(RunStep /\ Wrote) =>
          \E c \in Coll :
              /\ calls' = Append(calls, calls'[Len(calls')])
              /\ calls'[Len(calls')].coll = c
              /\ \A d \in Coll \ {c} : remote'[d] = remote[d]
              /\ remote'[c].records = remote[c].records
              /\ remote'[c].timestamp = remote[c].timestamp
              /\ registry' = registry
              /\ \/ /\ op = "refresh_signature"
                    /\ local.collection_metadata.status = "signed"
                 \/ /\ op = "schema_updater"
                    /\ local.dest_col.data.schema # Config(c)]_vars

\* validate_signature ran through three collections, issued its nine
\* requests, no other client wrote, and the service is as it was found.
C8_Witness ==
    /\ op = "validate_signature" /\ Completed
    /\ Len(calls) = 9
    /\ writes = 0
    /\ \A c \in Coll : remote[c].data.last_modified = 100

====
